---- MODULE Spec2Model ----
(***************************************************************************)
(* A model of the retrieval-and-analysis pipeline of pubtrends:            *)
(*   app/utils/cache.py           the expiring cache                       *)
(*   app/utils/data_retrieval.py  EUtilsClient and get_geo_data_for_pmids  *)
(*   app/utils/clustering.py      estimate_optimal_clusters                *)
(*                                                                         *)
(* Time is counted in hundredths of a second (the resolution of the        *)
(* client's delay of 0.34 s).  The specifications share the variables:    *)
(*   SpecCache  add_to_cache / get_from_cache on one dictionary            *)
(*   SpecRate   one thread calling _respect_rate_limit repeatedly          *)
(*   SpecRace   two threads calling _respect_rate_limit on one client      *)
(*   Spec       get_geo_data_for_pmids calls run one after another         *)
(*   SpecConc   get_geo_data_for_pmids calls run modely              *)
(*   SpecClus   estimate_optimal_clusters                                  *)
(***************************************************************************)
EXTENDS Integers, Sequences, FiniteSets, TLC

VARIABLES
    now,                \* time.time(), in hundredths of a second
    ticks,              \* number of clock advances so far (bounds the model)
    \* ---- cache.py: one dictionary under add_to_cache / get_from_cache
    cache,              \* cache_dict: key -> [ts, data], for the keys present
    stored,             \* history: key -> [ts, data] of the last add_to_cache for the key
    got,                \* history: the last get_from_cache call, [key, at, value]
    \* ---- data_retrieval.py: one EUtilsClient under _respect_rate_limit
    last_request_time,  \* self.last_request_time of the shared client
    rl_threads,         \* the threads that call _respect_rate_limit on the client
    rl,                 \* per thread: position in the call, locals and history
    \* ---- clustering.py: one call of estimate_optimal_clusters
    est,                \* position in the call, arguments, locals and result
    \* ---- data_retrieval.py: get_geo_data_for_pmids calls over the shared caches
    pmid_cache,         \* cache.pmid_cache: pmid -> [ts, data], data a list of GEO ids
    geo_cache,          \* cache.geo_cache: geo id -> [ts, data], data a reference to a dict
    heap,               \* the dataset dicts: reference -> [geo_id, fields, pmid, cluster]
    mode,               \* "one" call, two calls in "seq"uence, or two "conc"urrent calls
    call,               \* per call: position, arguments, locals, result and history (events,
                        \* and requests: <<endpoint, position in pmids, position in geo_ids>>)
    okreq,              \* history: <<kind, key>> -> [ts, data] of the last request that succeeded
    \* ---- routes.py: one fetch_geo_data request, and the analysis functions it calls
    req,                \* position in the request, locals and response
    \* ---- clustering.py: one call of prepare_visualization_data
    viz,                \* arguments and result
    \* ---- cache.py: one function wrapped by cached_result
    deco                \* max_size, the private cache, the call in progress and history

commonVars == <<now, ticks>>
cacheVars  == <<cache, stored, got>>
rateVars   == <<last_request_time, rl_threads, rl>>
clusVars   == <<est>>
retrVars   == <<pmid_cache, geo_cache, heap, mode, call, okreq>>
anaVars    == <<req, viz, deco>>
vars == <<now, ticks, cache, stored, got, last_request_time, rl_threads, rl, est,
          pmid_cache, geo_cache, heap, mode, call, okreq, req, viz, deco>>

(***************************************************************************)
(* Constants of the program and bounds of the model.                       *)
(***************************************************************************)
CACHE_EXPIRY == 86400 * 100     \* cache.py:10, 86400 s in hundredths of a second
delay == 34                     \* data_retrieval.py:20, 0.34 s in hundredths of a second

MaxTicks == 3                   \* clock advances per behaviour
MaxPmids == 2                   \* PMIDs in the list of a call that runs alone
MaxPauses == 1                  \* long pauses (of CACHE_EXPIRY) while calls are served
MaxRequestTime == 5             \* the longest a request takes, in hundredths of a second
MaxWaits == 3                   \* _respect_rate_limit calls per thread
MaxN == 5                       \* records given to estimate_optimal_clusters
MaxArg == 4                     \* explicit max_clusters arguments are 1..MaxArg
DEFAULT_MAX_CLUSTERS == 10      \* clustering.py:12, the default of max_clusters

StartTime == CACHE_EXPIRY       \* the clock at process start: far more than delay after 0

Max2(a, b) == IF a >= b THEN a ELSE b
Min2(a, b) == IF a <= b THEN a ELSE b

(***************************************************************************)
(* Python values.  A dictionary of the program is a function whose DOMAIN  *)
(* is the set of keys present.                                             *)
(***************************************************************************)
PyNone == [t |-> "None"]
PyStr(s) == [t |-> "str", v |-> s]
PyList(xs) == [t |-> "list", v |-> xs]
PyRef(r) == [t |-> "dict", ref |-> r]       \* a reference to a dict on the heap

EmptyDict == [k \in {} |-> PyNone]
DictSet(d, key, val) ==                     \* d[key] = val
    [k \in (DOMAIN d) \cup {key} |-> IF k = key THEN val ELSE d[k]]

DictDel(d, key) == [k \in (DOMAIN d) \ {key} |-> d[k]]     \* del d[key]

(***************************************************************************)
(* cache.py                                                                *)
(***************************************************************************)
Keys == {"k1", "k2"}
Values == {PyStr("v1"), PyStr("v2"), PyNone}

\* get_from_cache with the comparison of a plausible bug: an entry of age
\* exactly CACHE_EXPIRY is still served.
get_from_cache_le(cache_dict, key, t) ==
    IF key \in DOMAIN cache_dict /\ t - cache_dict[key].ts <= CACHE_EXPIRY
    THEN cache_dict[key].data
    ELSE PyNone

\* get_from_cache(cache_dict, key) called when time.time() returns t
get_from_cache(cache_dict, key, t) ==
    IF key \in DOMAIN cache_dict /\ t - cache_dict[key].ts < CACHE_EXPIRY
    THEN cache_dict[key].data
    ELSE PyNone

\* add_to_cache(cache_dict, key, data) called when time.time() returns t
add_to_cache(cache_dict, key, data, t) ==
    DictSet(cache_dict, key, [ts |-> t, data |-> data])

\* Lines 15-19 with a plausible bug: an expired entry is deleted when it is read.
cache_after_get_evicts(cache_dict, key, t) ==
    IF key \in DOMAIN cache_dict /\ ~(t - cache_dict[key].ts < CACHE_EXPIRY)
    THEN DictDel(cache_dict, key)
    ELSE cache_dict

\* Lines 15-19: cache_dict after get_from_cache(cache_dict, key); the function
\* reads cache_dict and assigns nothing to it.
cache_after_get(cache_dict, key, t) == cache_dict

\* The clock moves on by d.
Advance(d) ==
    /\ ticks < MaxTicks
    /\ now' = now + d
    /\ ticks' = ticks + 1

CacheSteps == {1, CACHE_EXPIRY - 1}

TickCache ==
    /\ \E d \in CacheSteps : Advance(d)
    /\ UNCHANGED <<cacheVars, rateVars, clusVars, retrVars, anaVars>>

AddToCache ==
    /\ \E k \in Keys, v \in Values :
        /\ cache' = add_to_cache(cache, k, v, now)
        /\ stored' = DictSet(stored, k, [ts |-> now, data |-> v])
    /\ UNCHANGED <<got, commonVars, rateVars, clusVars, retrVars, anaVars>>

GetFromCache ==
    /\ \E k \in Keys :
        /\ got' = [op |-> "get", key |-> k, at |-> now,
                   value |-> get_from_cache(cache, k, now)]
        /\ cache' = cache_after_get(cache, k, now)
    /\ UNCHANGED <<stored, commonVars, rateVars, clusVars, retrVars, anaVars>>

NoGet == [op |-> "none"]

CommonInit == now = StartTime /\ ticks = 0
CacheInit == cache = EmptyDict /\ stored = EmptyDict /\ got = NoGet

(***************************************************************************)
(* data_retrieval.py: EUtilsClient._respect_rate_limit                     *)
(***************************************************************************)
Threads == {1, 2}

\* The argument of time.sleep with a plausible bug: the time already waited is
\* counted twice.
sleep_time_short(current_time, last) ==
    LET time_since_last_request == current_time - last
    IN  IF time_since_last_request < delay
        THEN Max2(0, delay - 2 * time_since_last_request)
        ELSE 0

\* Lines 36-40: how long _respect_rate_limit sleeps when time.time() returns
\* current_time and self.last_request_time is last (0: no sleep).
sleep_time(current_time, last) ==
    LET time_since_last_request == current_time - last
    IN  IF time_since_last_request < delay
        THEN delay - time_since_last_request
        ELSE 0

NoTime == StartTime - 1          \* no such time yet: before the process started

\* A thread outside a call; n calls made so far.
RlIdle == [pc |-> "idle", n |-> 0, start |-> NoTime, prev_start |-> NoTime,
           read |-> NoTime, wake |-> NoTime, ret |-> NoTime, stale |-> FALSE]

\* Lines 36-39: the call starts, reads the clock and self.last_request_time.
RlRead(t) ==
    /\ t \in rl_threads
    /\ rl[t].pc = "idle"
    /\ rl[t].n < MaxWaits
    /\ LET s == sleep_time(now, last_request_time)
       IN  rl' = [rl EXCEPT ![t] = [@ EXCEPT
                    !.pc = IF s > 0 THEN "sleep" ELSE "write",
                    !.n = @ + 1,
                    !.prev_start = rl[t].start,
                    !.start = now,
                    !.read = last_request_time,
                    !.wake = now + s]]
    /\ UNCHANGED <<last_request_time, rl_threads, commonVars, cacheVars, clusVars, retrVars, anaVars>>

\* Line 40: time.sleep returns once the requested time has passed.
RlWake(t) ==
    /\ t \in rl_threads
    /\ rl[t].pc = "sleep"
    /\ now >= rl[t].wake
    /\ rl' = [rl EXCEPT ![t].pc = "write"]
    /\ UNCHANGED <<last_request_time, rl_threads, commonVars, cacheVars, clusVars, retrVars, anaVars>>

\* Line 42: self.last_request_time = time.time(), and the call returns.
RlWrite(t) ==
    /\ t \in rl_threads
    /\ rl[t].pc = "write"
    /\ last_request_time' = now
    /\ rl' = [rl EXCEPT ![t] = [@ EXCEPT
                !.pc = "idle",
                !.ret = now,
                !.stale = (last_request_time # rl[t].read)]]
    /\ UNCHANGED <<rl_threads, commonVars, cacheVars, clusVars, retrVars, anaVars>>

RateSteps == {delay \div 2, delay}

TickRate ==
    /\ \E d \in RateSteps : Advance(d)
    /\ UNCHANGED <<cacheVars, rateVars, clusVars, retrVars, anaVars>>

\* EUtilsClient.__init__ : last_request_time = 0
RateInit(threads) ==
    /\ last_request_time = 0
    /\ rl_threads = threads
    /\ rl = [t \in Threads |-> RlIdle]

(***************************************************************************)
(* clustering.py: estimate_optimal_clusters                                *)
(***************************************************************************)
\* silhouette_score lies in [-1, 1]; three values stand for it.
ScoreValues == {-1, 0, 1}

\* What one candidate n_clusters can come to: the clustering collapses to one
\* label (line 48), silhouette_score raises ValueError (line 55), or a score.
CandidateOutcomes ==
    {[kind |-> "collapse"], [kind |-> "ValueError"]}
        \cup {[kind |-> "score", score |-> v] : v \in ScoreValues}

MaxClustersArgs == (1 .. MaxArg) \cup {DEFAULT_MAX_CLUSTERS}

\* The search bound with a plausible bug: not clamped to n - 1.
search_bound_unclamped(max_clusters, n) == max_clusters

\* Line 31: max_clusters = min(max_clusters, distance_matrix.shape[0] - 1)
search_bound(max_clusters, n) == Min2(max_clusters, n - 1)

\* Line 62 with a plausible bug: the last of the entries with the highest score.
best_scored_last(silhouette_scores) ==
    LET i == CHOOSE i \in 1 .. Len(silhouette_scores) :
                /\ \A j \in 1 .. Len(silhouette_scores) :
                       silhouette_scores[j][2] <= silhouette_scores[i][2]
                /\ \A j \in (i + 1) .. Len(silhouette_scores) :
                       silhouette_scores[j][2] < silhouette_scores[i][2]
    IN  silhouette_scores[i][1]

\* Line 62: max(silhouette_scores, key=lambda x: x[1])[0] -- Python's max returns
\* the first of the entries with the highest key.
best_scored(silhouette_scores) ==
    LET i == CHOOSE i \in 1 .. Len(silhouette_scores) :
                /\ \A j \in 1 .. Len(silhouette_scores) :
                       silhouette_scores[j][2] <= silhouette_scores[i][2]
                /\ \A j \in 1 .. (i - 1) :
                       silhouette_scores[j][2] < silhouette_scores[i][2]
    IN  silhouette_scores[i][1]

\* Lines 58-59: the result when no candidate was scored
fallback_clusters(n) == IF n > 1 THEN Min2(3, n - 1) ELSE 1

EstIdle == [pc |-> "idle", n |-> 0, max_clusters |-> 0, bound |-> 0, n_clusters |-> 0,
            silhouette_scores |-> <<>>, result |-> 0]

\* Lines 25-36: the call with its early returns.
EstEnter ==
    /\ est.pc = "call"
    /\ LET b == search_bound(est.max_clusters, est.n)
       IN  est' = IF est.n < 2
                  THEN [est EXCEPT !.pc = "done", !.result = 1]
                  ELSE IF b <= 1
                  THEN [est EXCEPT !.pc = "done", !.result = 1, !.bound = b]
                  ELSE [est EXCEPT !.pc = "loop", !.bound = b, !.n_clusters = 2]
    /\ UNCHANGED <<commonVars, cacheVars, rateVars, retrVars, anaVars>>

\* Lines 37-56: one candidate of the loop.
EstCandidate ==
    /\ est.pc = "loop"
    /\ est.n_clusters <= est.bound
    /\ \E o \in CandidateOutcomes :
        est' = [est EXCEPT
                  !.n_clusters = @ + 1,
                  !.silhouette_scores =
                      IF est.n < est.n_clusters \/ o.kind # "score"
                      THEN @
                      ELSE Append(@, <<est.n_clusters, o.score>>)]
    /\ UNCHANGED <<commonVars, cacheVars, rateVars, retrVars, anaVars>>

\* Lines 58-64: the loop is over.
EstReturn ==
    /\ est.pc = "loop"
    /\ est.n_clusters > est.bound
    /\ est' = [est EXCEPT
                 !.pc = "done",
                 !.result = IF est.silhouette_scores = <<>>
                            THEN fallback_clusters(est.n)
                            ELSE best_scored(est.silhouette_scores)]
    /\ UNCHANGED <<commonVars, cacheVars, rateVars, retrVars, anaVars>>

(***************************************************************************)
(* data_retrieval.py: EUtilsClient lookups and get_geo_data_for_pmids      *)
(***************************************************************************)
PMIDs == {"P1", "P2", "P3"}
Calls == {1, 2}

\* The external service: the GEO ids elink.fcgi links to each PMID ...
LinksOf(pmid) ==
    CASE pmid = "P1" -> <<"G1", "G2">>
      [] pmid = "P2" -> <<"G1">>
      [] OTHER -> <<>>

\* ... and the Item texts esummary.fcgi holds for each GEO id.
\* (the words of title, gdsType, summary, taxon and design, in this order)
FieldsOf(geo_id) ==
    CASE geo_id = "G1" -> <<"rna", "of", "liver">>
      [] geo_id = "G2" -> <<"rna", "of", "brain">>
      [] OTHER -> <<>>

\* The PMID lists a request may carry: up to MaxPmids PMIDs for a call that runs
\* alone, at most one PMID for each of two calls.
PmidLists == UNION {[1 .. n -> PMIDs] : n \in 0 .. MaxPmids}
ShortLists == {<<>>} \cup {<<p>> : p \in PMIDs}

\* What a request to elink.fcgi can come to: a well-formed answer, a transport or
\* HTTP failure (requests.exceptions.RequestException), text that is no XML
\* (ET.ParseError at line 77), a LinkSetDb without LinkName (AttributeError at line
\* 87), a Link without Id (AttributeError at line 90).
ElinkOutcomes(pmid) ==
    {"ok", "RequestException", "unparsable", "no_LinkName"}
        \cup (IF LinksOf(pmid) # <<>> THEN {"no_Id"} ELSE {})

\* What a request to esummary.fcgi can come to: a well-formed answer, a transport or
\* HTTP failure, text that is no XML (ET.ParseError at line 134), no DocSum element.
EsummaryOutcomes == {"ok", "RequestException", "unparsable", "no_DocSum"}

\* Lines 72-101: the exception get_geo_ids_for_pmid lets escape, "" for none.
\* Only requests.exceptions.RequestException is caught.
elink_escapes(outcome) ==
    CASE outcome = "unparsable" -> "ParseError"
      [] outcome \in {"no_LinkName", "no_Id"} -> "AttributeError"
      [] OTHER -> ""

\* Lines 129-179: the exception get_geo_dataset_details lets escape, "" for none.
esummary_escapes(outcome) ==
    IF outcome = "unparsable" THEN "ParseError" ELSE ""

NoPmid == "-"                   \* a dataset dict without the key "pmid"
NoRef == 0
NoCluster == -2                 \* a dataset dict without the key "cluster"

\* Lines 143-150: the dict get_geo_dataset_details builds
new_dataset(geo_id) ==
    [geo_id |-> geo_id, fields |-> FieldsOf(geo_id), pmid |-> NoPmid, cluster |-> NoCluster]

\* A reference for a new dict.
fresh_ref(h) == CHOOSE r \in 1 .. (Cardinality(DOMAIN h) + 1) : r \notin DOMAIN h

\* Line 195: client = EUtilsClient(email=email), and lines 196-197.
CallIdle == [pc |-> "idle", pmids |-> <<>>, i |-> 0, geo_ids |-> <<>>, j |-> 0,
             dataset |-> NoRef, datasets |-> <<>>, pmid_to_geo_ids |-> EmptyDict,
             keys |-> <<>>,
             last_request_time |-> 0, wake |-> 0, exc |-> "",
             tags |-> <<>>, result |-> <<>>, events |-> <<>>, requests |-> <<>>]

\* The keys of a dict are kept in the order of their first insertion.
KeysAdd(keys, key) ==
    IF \E i \in 1 .. Len(keys) : keys[i] = key THEN keys ELSE Append(keys, key)

Running(c) == call[c].pc \notin {"idle", "done", "raised"}

\* Lines 205-209 with a plausible bug: "if geo_ids is not None", so that an empty
\* list is recorded in the map too.
after_ids_keeps_empty(cr, geo_ids) ==
    IF geo_ids # <<>>
    THEN [cr EXCEPT !.pmid_to_geo_ids = DictSet(@, cr.pmids[cr.i], geo_ids),
                    !.keys = KeysAdd(@, cr.pmids[cr.i]),
                    !.geo_ids = geo_ids, !.j = 1, !.pc = "details"]
    ELSE [cr EXCEPT !.pmid_to_geo_ids = DictSet(@, cr.pmids[cr.i], geo_ids),
                    !.keys = KeysAdd(@, cr.pmids[cr.i]),
                    !.i = @ + 1, !.pc = "ids"]

\* Lines 205-209 with a plausible bug: the loop ends at the first PMID without
\* GEO ids.
after_ids_break(cr, geo_ids) ==
    IF geo_ids # <<>>
    THEN [cr EXCEPT !.pmid_to_geo_ids = DictSet(@, cr.pmids[cr.i], geo_ids),
                    !.keys = KeysAdd(@, cr.pmids[cr.i]),
                    !.geo_ids = geo_ids, !.j = 1, !.pc = "details"]
    ELSE [cr EXCEPT !.i = Len(cr.pmids) + 1, !.pc = "ids"]

\* Lines 205-209: geo_ids came back for pmids[i].
after_ids(cr, geo_ids) ==
    IF geo_ids # <<>>
    THEN [cr EXCEPT !.pmid_to_geo_ids = DictSet(@, cr.pmids[cr.i], geo_ids),
                    !.keys = KeysAdd(@, cr.pmids[cr.i]),
                    !.geo_ids = geo_ids, !.j = 1, !.pc = "details"]
    ELSE [cr EXCEPT !.i = @ + 1, !.pc = "ids"]

\* Lines 209 and 199 with a plausible bug: a summary request that gave no record
\* is made once more.
after_detail_retry(cr) ==
    IF cr.dataset = NoRef
          /\ Cardinality({r \in 1 .. Len(cr.requests) :
                              cr.requests[r] = <<"esummary", cr.i, cr.j>>}) < 2
    THEN [cr EXCEPT !.pc = "details"]
    ELSE IF cr.j < Len(cr.geo_ids)
    THEN [cr EXCEPT !.j = @ + 1, !.pc = "details", !.dataset = NoRef]
    ELSE [cr EXCEPT !.i = @ + 1, !.pc = "ids", !.dataset = NoRef]

\* Lines 209 and 199: on to the next geo_id, or to the next pmid.
after_detail(cr) ==
    IF cr.j < Len(cr.geo_ids)
    THEN [cr EXCEPT !.j = @ + 1, !.pc = "details", !.dataset = NoRef]
    ELSE [cr EXCEPT !.i = @ + 1, !.pc = "ids", !.dataset = NoRef]

\* History: a lookup of the client returned (or raised): which method, for which
\* key, served from the cache or by a request, how it ended and what it returned.
Event(cr, op, key, src, out, value) ==
    [cr EXCEPT !.events = Append(@, [op |-> op, key |-> key, src |-> src,
                                     out |-> out, value |-> value])]

\* get_geo_data_for_pmids(pmids, email) is called.
Start(c) ==
    /\ call[c].pc = "idle"
    /\ mode = "one" => c = 1
    /\ mode = "seq" => \A d \in Calls \ {c} : ~Running(d)
    /\ \E pmids \in IF mode = "one" THEN PmidLists ELSE ShortLists :
        call' = [call EXCEPT ![c] = [CallIdle EXCEPT !.pc = "ids", !.pmids = pmids, !.i = 1]]
    /\ UNCHANGED <<pmid_cache, geo_cache, heap, mode, okreq>>
    /\ UNCHANGED <<commonVars, cacheVars, rateVars, clusVars, anaVars>>

\* Lines 54-60 and 113-119 with a plausible bug: _respect_rate_limit is called
\* before the cache is looked at.
client_after_hit_limited(cr, t) ==
    [cr EXCEPT !.last_request_time = t + sleep_time(t, cr.last_request_time)]

\* Lines 54-58 and 113-117: a lookup that finds its value in the cache returns
\* before _respect_rate_limit; the client is as it was.
client_after_hit(cr, t) == cr

\* Lines 199-203 and 54-58: the next pmid; get_geo_ids_for_pmid looks in pmid_cache.
IdsLookup(c) ==
    LET cr == call[c]
        pmid == cr.pmids[cr.i]
        cached == get_from_cache(pmid_cache, pmid, now)
    IN  /\ cr.pc = "ids"
        /\ cr.i <= Len(cr.pmids)
        /\ call' = [call EXCEPT ![c] =
                      IF cached # PyNone
                      THEN after_ids(Event(client_after_hit(cr, now), "ids", pmid, "cache",
                                            "ok", cached), cached.v)
                      ELSE [cr EXCEPT !.pc = "elink"]]
        /\ UNCHANGED <<pmid_cache, geo_cache, heap, mode, okreq>>
        /\ UNCHANGED <<commonVars, cacheVars, rateVars, clusVars, anaVars>>

\* What get_geo_ids_for_pmid stores in pmid_cache, with a plausible bug: the
\* empty list of a failed request is stored too.
elink_caches_always(outcome) == outcome \in {"ok", "RequestException"}

\* Lines 93-101: what get_geo_ids_for_pmid stores in pmid_cache.
elink_caches(outcome) == outcome = "ok"

\* How long a request takes, from requests.get to its answer or its failure.
RequestTimes == {0, MaxRequestTime}

\* Line 42, then lines 62-73 or 121-130: self.last_request_time = time.time(), and
\* requests.get sends the request; the thread waits for the answer.
request_sent(cr, t) ==
    [cr EXCEPT !.last_request_time = t,
               !.wake = 0,
               !.requests = Append(@, IF cr.pc \in {"elink", "elink_sleep"}
                                      THEN <<"elink", cr.i, 0>>
                                      ELSE <<"esummary", cr.i, cr.j>>),
               !.pc = IF cr.pc \in {"elink", "elink_sleep"} THEN "elink_get"
                      ELSE "esummary_get"]

\* Lines 60 and 119, 34-42: _respect_rate_limit reads the clock; when less than delay
\* has passed since last_request_time the thread goes to sleep (line 40), otherwise
\* line 42 follows at once and the request is sent.
RespectRateLimit(c) ==
    LET cr == call[c]
        s == sleep_time(now, cr.last_request_time)
    IN  /\ cr.pc \in {"elink", "esummary"}
        /\ call' = [call EXCEPT ![c] =
                      IF s > 0
                      THEN [cr EXCEPT !.wake = now + s,
                                      !.pc = IF cr.pc = "elink" THEN "elink_sleep"
                                             ELSE "esummary_sleep"]
                      ELSE request_sent(cr, now)]
        /\ UNCHANGED <<pmid_cache, geo_cache, heap, mode, okreq>>
        /\ UNCHANGED <<commonVars, cacheVars, rateVars, clusVars, anaVars>>

\* Lines 40-42: time.sleep returns, not before the time to wake at; the clock is
\* read again into last_request_time and the request is sent.
Wake(c) ==
    LET cr == call[c]
        t == Max2(now, cr.wake)
    IN  /\ cr.pc \in {"elink_sleep", "esummary_sleep"}
        /\ call' = [call EXCEPT ![c] = request_sent(cr, t)]
        /\ now' = t
        /\ UNCHANGED <<pmid_cache, geo_cache, heap, mode, okreq>>
        /\ UNCHANGED <<ticks, cacheVars, rateVars, clusVars, anaVars>>

\* Lines 73-101: requests.get returns or raises, some time after the request was
\* sent; the answer is parsed, and add_to_cache (line 96) stamps the entry with the
\* clock as it is then.
Elink(c) ==
    LET cr == call[c]
        pmid == cr.pmids[cr.i]
    IN  /\ cr.pc = "elink_get"
        /\ \E o \in ElinkOutcomes(pmid), d \in RequestTimes :
            LET t == Max2(now, cr.last_request_time + d)
                geo_ids == IF o = "ok" THEN LinksOf(pmid) ELSE <<>>
                cr1 == Event(cr, "ids", pmid, "request",
                             IF elink_escapes(o) # "" THEN elink_escapes(o) ELSE o,
                             IF elink_escapes(o) # "" THEN PyNone ELSE PyList(geo_ids))
            IN  /\ call' = [call EXCEPT ![c] =
                              IF elink_escapes(o) # ""
                              THEN [cr1 EXCEPT !.pc = "raised", !.exc = elink_escapes(o)]
                              ELSE after_ids(cr1, geo_ids)]
                /\ pmid_cache' = IF elink_caches(o)
                                 THEN add_to_cache(pmid_cache, pmid, PyList(geo_ids), t)
                                 ELSE pmid_cache
                /\ okreq' = IF o = "ok"
                            THEN DictSet(okreq, <<"ids", pmid>>,
                                         [ts |-> t, data |-> PyList(LinksOf(pmid))])
                            ELSE okreq
                /\ now' = t
        /\ UNCHANGED <<geo_cache, heap, mode>>
        /\ UNCHANGED <<ticks, cacheVars, rateVars, clusVars, anaVars>>

\* Lines 209-210 and 113-117: get_geo_dataset_details looks in geo_cache.
DetailsLookup(c) ==
    LET cr == call[c]
        geo_id == cr.geo_ids[cr.j]
        cached == get_from_cache(geo_cache, geo_id, now)
    IN  /\ cr.pc = "details"
        /\ call' = [call EXCEPT ![c] =
                      IF cached # PyNone
                      THEN [Event(client_after_hit(cr, now), "details", geo_id, "cache",
                                  "ok", cached)
                               EXCEPT !.pc = "tag", !.dataset = cached.ref]
                      ELSE [cr EXCEPT !.pc = "esummary"]]
        /\ UNCHANGED <<pmid_cache, geo_cache, heap, mode, okreq>>
        /\ UNCHANGED <<commonVars, cacheVars, rateVars, clusVars, anaVars>>

\* Lines 130-179: requests.get returns or raises, some time after the request was
\* sent; the dict is built from the answer, and add_to_cache (line 173) stamps the
\* entry with the clock as it is then.
Esummary(c) ==
    LET cr == call[c]
        geo_id == cr.geo_ids[cr.j]
        r == fresh_ref(heap)
    IN  /\ cr.pc = "esummary_get"
        /\ \E o \in EsummaryOutcomes, d \in RequestTimes :
            LET t == Max2(now, cr.last_request_time + d)
                cr1 == Event(cr, "details", geo_id, "request",
                             IF esummary_escapes(o) # "" THEN esummary_escapes(o) ELSE o,
                             IF o = "ok" THEN PyRef(r) ELSE PyNone)
            IN  /\ call' = [call EXCEPT ![c] =
                              IF esummary_escapes(o) # ""
                              THEN [cr1 EXCEPT !.pc = "raised", !.exc = esummary_escapes(o)]
                              ELSE IF o = "ok"
                              THEN [cr1 EXCEPT !.pc = "tag", !.dataset = r]
                              ELSE after_detail(cr1)]
                /\ heap' = IF o = "ok" THEN DictSet(heap, r, new_dataset(geo_id)) ELSE heap
                /\ geo_cache' = IF o = "ok"
                                THEN add_to_cache(geo_cache, geo_id, PyRef(r), t)
                                ELSE geo_cache
                /\ okreq' = IF o = "ok"
                            THEN DictSet(okreq, <<"details", geo_id>>,
                                         [ts |-> t, data |-> PyRef(r)])
                            ELSE okreq
                /\ now' = t
        /\ UNCHANGED <<pmid_cache, mode>>
        /\ UNCHANGED <<ticks, cacheVars, rateVars, clusVars, anaVars>>

\* Lines 212-215: dataset["pmid"] = pmid; datasets.append(dataset)
Tag(c) ==
    LET cr == call[c]
        pmid == cr.pmids[cr.i]
    IN  /\ cr.pc = "tag"
        /\ heap' = [heap EXCEPT ![cr.dataset].pmid = pmid]
        /\ call' = [call EXCEPT ![c] =
                      after_detail([cr EXCEPT !.datasets = Append(@, cr.dataset),
                                              !.tags = Append(@, pmid)])]
        /\ UNCHANGED <<pmid_cache, geo_cache, mode, okreq>>
        /\ UNCHANGED <<commonVars, cacheVars, rateVars, clusVars, anaVars>>

\* Lines 217-218: the loop is over; the caller receives the list of dicts and the map.
Return(c) ==
    LET cr == call[c]
    IN  /\ cr.pc = "ids"
        /\ cr.i > Len(cr.pmids)
        /\ call' = [call EXCEPT ![c] =
                      [cr EXCEPT !.pc = "done",
                                 !.result = [k \in 1 .. Len(cr.datasets) |-> heap[cr.datasets[k]]]]]
        /\ UNCHANGED <<pmid_cache, geo_cache, heap, mode, okreq>>
        /\ UNCHANGED <<commonVars, cacheVars, rateVars, clusVars, anaVars>>

\* The process idles for CACHE_EXPIRY.
Pause ==
    /\ ticks < MaxPauses
    /\ now' = now + CACHE_EXPIRY
    /\ ticks' = ticks + 1
    /\ UNCHANGED <<cacheVars, rateVars, clusVars, retrVars, anaVars>>

RetrInit(m) ==
    /\ pmid_cache = EmptyDict
    /\ geo_cache = EmptyDict
    /\ heap = EmptyDict
    /\ mode = m
    /\ call = [c \in Calls |-> CallIdle]
    /\ okreq = EmptyDict

NextRetr ==
    \/ Pause
    \/ \E c \in Calls : Start(c)
    \/ \E c \in Calls : IdsLookup(c)
    \/ \E c \in Calls : RespectRateLimit(c)
    \/ \E c \in Calls : Wake(c)
    \/ \E c \in Calls : Elink(c)
    \/ \E c \in Calls : DetailsLookup(c)
    \/ \E c \in Calls : Esummary(c)
    \/ \E c \in Calls : Tag(c)
    \/ \E c \in Calls : Return(c)

\* Two calls on two threads of a process that does not idle meanwhile.
NextConc ==
    \/ \E c \in Calls : Start(c)
    \/ \E c \in Calls : IdsLookup(c)
    \/ \E c \in Calls : RespectRateLimit(c)
    \/ \E c \in Calls : Wake(c)
    \/ \E c \in Calls : Elink(c)
    \/ \E c \in Calls : DetailsLookup(c)
    \/ \E c \in Calls : Esummary(c)
    \/ \E c \in Calls : Tag(c)
    \/ \E c \in Calls : Return(c)

(***************************************************************************)
(* Sequences and numbers as Python and numpy give them                     *)
(***************************************************************************)
Indices(s) == [i \in 1 .. Len(s) |-> i]

RECURSIVE Concat(_)
Concat(ss) == IF ss = <<>> THEN <<>> ELSE Head(ss) \o Concat(Tail(ss))

RECURSIVE SumSeq(_)
SumSeq(s) == IF s = <<>> THEN 0 ELSE Head(s) + SumSeq(Tail(s))

\* max(s) of a non-empty sequence of integers
SeqMax(s) == CHOOSE m \in {s[i] : i \in 1 .. Len(s)} : \A i \in 1 .. Len(s) : s[i] <= m

Abs(a) == IF a < 0 THEN 0 - a ELSE a

RECURSIVE Gcd(_, _)
Gcd(a, b) == IF b = 0 THEN a ELSE Gcd(b, a % b)

\* A float is kept as the exact quotient num / den in lowest terms, den > 0.
Quotient(num, den) ==
    LET g == Gcd(Abs(num), den)
    IN  <<num \div g, den \div g>>

Float(v) == Quotient(v, 1)

(***************************************************************************)
(* clustering.py: prepare_visualization_data                               *)
(***************************************************************************)
\* Line 202: the cluster of a PMID node
PMID_CLUSTER == -1

EmptyGraph == [exc |-> "", nodes |-> <<>>, links |-> <<>>, clusters |-> <<>>]

\* Lines 165-180: a node for every row whose index is within reduced_vectors and
\* cluster_labels (title, experiment_type and organism are copied like pmid and
\* are left out).
dataset_nodes(df, reduced_vectors, cluster_labels) ==
    LET kept == SelectSeq(Indices(df), LAMBDA i :
                    ~(i > Len(reduced_vectors) \/ i > Len(cluster_labels)))
    IN  [n \in 1 .. Len(kept) |->
            LET i == kept[n]
            IN  [id |-> df[i].geo_id, type |-> "dataset", pmid |-> df[i].pmid,
                 x |-> Float(reduced_vectors[i][1]),
                 y |-> Float(reduced_vectors[i][2]),
                 cluster |-> cluster_labels[i]]]

\* Lines 194-195 with a plausible bug: the sum is divided by the number of all
\* dataset nodes.
average_over_all(values, nodes) == Quotient(SumSeq(values), Len(nodes))

\* Lines 194-195: sum(...) / len(related_datasets)
average(values, nodes) == Quotient(SumSeq(values), Len(values))

\* Lines 186-203: the node of one key of pmid_to_geo_ids, if any (the x and y of
\* a dataset node are whole, so their numerators are summed).
pmid_node(nodes, pmid) ==
    LET related_datasets == SelectSeq(nodes, LAMBDA node : node.pmid = pmid)
    IN  IF related_datasets = <<>>
        THEN <<>>
        ELSE <<[id |-> pmid, type |-> "pmid",
                x |-> average([k \in 1 .. Len(related_datasets) |-> related_datasets[k].x[1]],
                              nodes),
                y |-> average([k \in 1 .. Len(related_datasets) |-> related_datasets[k].y[1]],
                              nodes),
                cluster |-> PMID_CLUSTER]>>

\* Lines 183-203, over the keys of pmid_to_geo_ids in insertion order
pmid_nodes(nodes, items) ==
    Concat([k \in 1 .. Len(items) |-> pmid_node(nodes, items[k].pmid)])

\* Lines 209-216 with a plausible bug: source and target of the link are swapped.
pmid_links_swapped(items) ==
    Concat([k \in 1 .. Len(items) |->
               [m \in 1 .. Len(items[k].geo_ids) |->
                   [source |-> items[k].geo_ids[m], target |-> items[k].pmid,
                    type |-> "pmid_to_dataset"]]])

\* Lines 209-216: a link for every geo_id of every key
pmid_links(items) ==
    Concat([k \in 1 .. Len(items) |->
               [m \in 1 .. Len(items[k].geo_ids) |->
                   [source |-> items[k].pmid, target |-> items[k].geo_ids[m],
                    type |-> "pmid_to_dataset"]]])

\* Lines 219-226 with a plausible bug: node2 ranges over all the other nodes.
later_nodes_all(nodes, i) == SubSeq(nodes, 1, i - 1) \o SubSeq(nodes, i + 1, Len(nodes))

\* Line 220: nodes[i + 1:]
later_nodes(nodes, i) == SubSeq(nodes, i + 1, Len(nodes))

\* Lines 219-226: a link for every pair of dataset nodes with the same cluster
cluster_links(nodes) ==
    Concat([i \in 1 .. Len(nodes) |->
               LET same == SelectSeq(later_nodes(nodes, i),
                                     LAMBDA node2 : nodes[i].cluster = node2.cluster)
               IN  [m \in 1 .. Len(same) |->
                       [source |-> nodes[i].id, target |-> same[m].id,
                        type |-> "same_cluster"]]])

\* Line 232 with a plausible bug: an entry for a cluster without nodes too.
keeps_cluster_always(cluster_nodes) == TRUE

\* Line 232: if cluster_nodes
keeps_cluster(cluster_nodes) == cluster_nodes # <<>>

\* Lines 229-237: an entry for every cluster_id of range(max(cluster_labels) + 1)
\* that has nodes
cluster_entries(nodes, cluster_labels) ==
    Concat([c \in 1 .. (SeqMax(cluster_labels) + 1) |->
               LET cluster_id == c - 1
                   cluster_nodes == SelectSeq(nodes, LAMBDA node : node.cluster = cluster_id)
               IN  IF keeps_cluster(cluster_nodes)
                   THEN <<[id |-> cluster_id, size |-> Len(cluster_nodes),
                           datasets |-> [m \in 1 .. Len(cluster_nodes) |->
                                            cluster_nodes[m].id]]>>
                   ELSE <<>>])

\* Lines 156-246. pmid_to_geo_ids is given as its items() in insertion order. With
\* rows and coordinates but no labels, max() at line 230 raises ValueError.
prepare_visualization_data(df, reduced_vectors, cluster_labels, items) ==
    IF df = <<>> \/ Len(reduced_vectors) = 0
    THEN EmptyGraph
    ELSE IF cluster_labels = <<>>
    THEN [EmptyGraph EXCEPT !.exc = "ValueError"]
    ELSE LET nodes == dataset_nodes(df, reduced_vectors, cluster_labels)
         IN  [exc |-> "",
              nodes |-> nodes \o pmid_nodes(nodes, items),
              links |-> pmid_links(items) \o cluster_links(nodes),
              clusters |-> cluster_entries(nodes, cluster_labels)]

\* The inputs of one prepare_visualization_data call: rows of the DataFrame,
\* coordinates, labels and maps, of lengths that need not agree (line 167).
MaxRows == 3
RowValues == {[geo_id |-> "G1", pmid |-> "P1"], [geo_id |-> "G2", pmid |-> "P2"]}
VectorValues == {<<0, 0>>, <<-1, 3>>}
LabelValues == {-1, 0, 2}
SeqsUpTo(S, n) == UNION {[1 .. m -> S] : m \in 0 .. n}
MapValues ==
    { <<>>,
      <<[pmid |-> "P1", geo_ids |-> <<"G1", "G2">>]>>,
      <<[pmid |-> "P1", geo_ids |-> <<"G1", "G2">>], [pmid |-> "P2", geo_ids |-> <<"G1">>]>>,
      <<[pmid |-> "P2", geo_ids |-> <<"G1">>], [pmid |-> "P1", geo_ids |-> <<"G1", "G2">>]>>,
      <<[pmid |-> "P3", geo_ids |-> <<"G3">>]>> }

VizIdle == [pc |-> "idle", df |-> <<>>, reduced_vectors |-> <<>>, cluster_labels |-> <<>>,
            items |-> <<>>, result |-> EmptyGraph]

\* prepare_visualization_data(df, reduced_vectors, cluster_labels, pmid_to_geo_ids)
PrepareVisualizationData ==
    /\ viz.pc = "call"
    /\ viz' = [viz EXCEPT
                 !.pc = "done",
                 !.result = prepare_visualization_data(viz.df, viz.reduced_vectors,
                                                       viz.cluster_labels, viz.items)]
    /\ UNCHANGED <<commonVars, cacheVars, rateVars, clusVars, retrVars, req, deco>>

VizInit ==
    \E df \in SeqsUpTo(RowValues, MaxRows), rv \in SeqsUpTo(VectorValues, MaxRows),
       labels \in SeqsUpTo(LabelValues, MaxRows), items \in MapValues :
        viz = [VizIdle EXCEPT !.pc = "call", !.df = df, !.reduced_vectors = rv,
                              !.cluster_labels = labels, !.items = items]

(***************************************************************************)
(* text_processing.py                                                      *)
(***************************************************************************)
\* Lines 27-42: a row for every dict, with the words of the five text columns as
\* combined_text.
preprocess_datasets(datasets) ==
    [i \in 1 .. Len(datasets) |->
        [geo_id |-> datasets[i].geo_id, pmid |-> datasets[i].pmid,
         combined_text |-> datasets[i].fields]]

\* Lines 65-71: the parameters of TfidfVectorizer; max_df = 0.7 is kept in tenths,
\* and "of" stands for the English stop words.
MIN_DF == 2
MAX_DF_TENTHS == 7
StopWords == {"of"}

\* ngram_range = (1, 2): the words and the pairs of neighbouring words that are
\* left after the stop words are taken out
ngrams(text) ==
    LET tokens == SelectSeq(text, LAMBDA w : w \notin StopWords)
    IN  {<<tokens[i]>> : i \in 1 .. Len(tokens)}
            \cup {<<tokens[i], tokens[i + 1]>> : i \in 1 .. (Len(tokens) - 1)}

\* The number of documents a term occurs in.
document_frequency(term, texts) ==
    Cardinality({i \in 1 .. Len(texts) : term \in ngrams(texts[i])})

\* The terms fit_transform keeps: in at least min_df documents and in at most
\* max_df * n_doc documents.
vocabulary(texts) ==
    {term \in UNION {ngrams(texts[i]) : i \in 1 .. Len(texts)} :
        /\ document_frequency(term, texts) >= MIN_DF
        /\ 10 * document_frequency(term, texts) <= MAX_DF_TENTHS * Len(texts)}

\* Line 74: fit_transform raises ValueError for an empty vocabulary, for
\* max_df * n_doc < min_df, and when no term is left after pruning.
vectorizer_raises(texts) ==
    \/ UNION {ngrams(texts[i]) : i \in 1 .. Len(texts)} = {}
    \/ MAX_DF_TENTHS * Len(texts) < 10 * MIN_DF
    \/ vocabulary(texts) = {}

\* Lines 60-83: the matrix, as the terms of the vocabulary in each row; no rows for
\* an empty DataFrame.
create_tfidf_vectors(dataframe) ==
    LET texts == [i \in 1 .. Len(dataframe) |-> dataframe[i].combined_text]
    IN  [i \in 1 .. Len(dataframe) |-> ngrams(texts[i]) \cap vocabulary(texts)]

(***************************************************************************)
(* clustering.py: perform_clustering and reduce_dimensions, and            *)
(* routes.py: fetch_geo_data                                               *)
(***************************************************************************)
MaxComponents == 3              \* n_components is 1 .. MaxComponents
DEFAULT_N_COMPONENTS == 2

\* np.zeros(n, dtype=int) with a plausible bug: np.ones.
zeros_as_ones(n) == [i \in 1 .. n |-> 1]

\* np.zeros(n)
zeros(n) == [i \in 1 .. n |-> 0]

\* The labels of AgglomerativeClustering, with a plausible bug: counted from 1.
label_values_from_one(n_clusters) == 1 .. n_clusters

\* Line 95: clustering.labels_ are 0 .. n_clusters - 1
label_values(n_clusters) == 0 .. (n_clusters - 1)

\* Lines 90-95: AgglomerativeClustering(n_clusters).fit(...).labels_ gives every
\* sample one of n_clusters labels and leaves no label without a sample; which
\* sample gets which label depends on the distances.
fit_labels(n, n_clusters) ==
    {labels \in [1 .. n -> label_values(n_clusters)] :
        \A c \in label_values(n_clusters) : \E i \in 1 .. n : labels[i] = c}

\* The rows np.random.rand and TSNE.fit_transform can give: two rows stand for them.
CoordValues == {0, 1}
random_rows(n_components) == {[i \in 1 .. n_components |-> v] : v \in CoordValues}

\* Lines 111-135: what reduce_dimensions can return for a matrix of n rows
reduce_dimensions(n, n_components) ==
    IF n <= 1
    THEN IF n = 1 THEN {<<zeros(n_components)>>} ELSE {<<>>}
    ELSE [1 .. n -> random_rows(n_components)]

ReqIdle == [pc |-> "idle", datasets |-> <<>>, pmid_associations |-> <<>>, df |-> <<>>,
            tfidf_matrix |-> <<>>, estimated |-> FALSE, cluster_labels |-> <<>>,
            n_clusters |-> 0, n_components |-> DEFAULT_N_COMPONENTS,
            reduced_vectors |-> <<>>, visualization |-> EmptyGraph,
            status |-> 0, exc |-> "", body |-> <<>>]

\* routes.py line 62 and clustering.py lines 79-84: perform_clustering is called
\* and returns at once or calls estimate_optimal_clusters(similarity_matrix).
PerformClustering ==
    LET n == Len(req.tfidf_matrix)
    IN  /\ req.pc = "cluster"
        /\ IF n <= 1
           THEN /\ req' = [req EXCEPT !.pc = "reduce", !.cluster_labels = zeros(n),
                                      !.n_clusters = 1]
                /\ est' = est
           ELSE /\ req' = [req EXCEPT !.pc = "estimate", !.estimated = TRUE]
                /\ est' = [EstIdle EXCEPT !.pc = "call", !.n = n,
                                          !.max_clusters = DEFAULT_MAX_CLUSTERS]
        /\ UNCHANGED <<commonVars, cacheVars, rateVars, retrVars, viz, deco>>

\* clustering.py lines 84-97: estimate_optimal_clusters has returned; the
\* clustering with n_clusters is fitted and its labels are returned.
FitClustering ==
    /\ req.pc = "estimate"
    /\ est.pc = "done"
    /\ \E labels \in fit_labels(Len(req.tfidf_matrix), est.result) :
        req' = [req EXCEPT !.pc = "reduce", !.cluster_labels = labels,
                           !.n_clusters = est.result]
    /\ est' = EstIdle
    /\ UNCHANGED <<commonVars, cacheVars, rateVars, retrVars, viz, deco>>

\* routes.py line 65 and clustering.py lines 111-135: reduce_dimensions
ReduceDimensions ==
    /\ req.pc = "reduce"
    /\ \E reduced_vectors \in reduce_dimensions(Len(req.tfidf_matrix), req.n_components) :
        req' = [req EXCEPT !.pc = "reduced", !.reduced_vectors = reduced_vectors]
    /\ UNCHANGED <<commonVars, cacheVars, rateVars, clusVars, retrVars, viz, deco>>

\* dict.items(): the keys in insertion order, each with its value
dict_items(d, keys) == [k \in 1 .. Len(keys) |-> [pmid |-> keys[k], geo_ids |-> d[keys[k]]]]

\* routes.py lines 45-50 and 82-86: get_geo_data_for_pmids (call 1) has returned
\* or raised.
Receive ==
    LET cr == call[1]
    IN  /\ req.pc = "idle"
        /\ cr.pc \in {"done", "raised"}
        /\ req' = IF cr.pc = "raised"
                  THEN [req EXCEPT !.pc = "responded", !.status = 500, !.exc = cr.exc]
                  ELSE IF cr.datasets = <<>>
                  THEN [req EXCEPT !.pc = "responded", !.status = 404]
                  ELSE [req EXCEPT !.pc = "vectorize", !.datasets = cr.datasets,
                                   !.pmid_associations =
                                       dict_items(cr.pmid_to_geo_ids, cr.keys)]
        /\ UNCHANGED <<commonVars, cacheVars, rateVars, clusVars, retrVars, viz, deco>>

\* routes.py lines 53-59: preprocess_datasets, create_tfidf_vectors and
\* calculate_similarity_matrix; a ValueError of fit_transform is caught at line 82.
Vectorize ==
    LET df == preprocess_datasets([i \in 1 .. Len(req.datasets) |-> heap[req.datasets[i]]])
        texts == [i \in 1 .. Len(df) |-> df[i].combined_text]
    IN  /\ req.pc = "vectorize"
        /\ req' = IF vectorizer_raises(texts)
                  THEN [req EXCEPT !.pc = "responded", !.status = 500, !.df = df,
                                   !.exc = "ValueError"]
                  ELSE [req EXCEPT !.pc = "cluster", !.df = df,
                                   !.tfidf_matrix = create_tfidf_vectors(df)]
        /\ UNCHANGED <<commonVars, cacheVars, rateVars, clusVars, retrVars, viz, deco>>

\* routes.py lines 71-73: dataset['cluster'] = int(cluster_labels[i]) for the dicts
\* from position i on
RECURSIVE label_datasets(_, _, _, _)
label_datasets(h, datasets, cluster_labels, i) ==
    IF i > Len(datasets)
    THEN h
    ELSE label_datasets(IF i <= Len(cluster_labels)
                        THEN [h EXCEPT ![datasets[i]].cluster = cluster_labels[i]]
                        ELSE h,
                        datasets, cluster_labels, i + 1)

\* routes.py lines 68-80: prepare_visualization_data, the labels written into the
\* dicts, and the response.
Respond ==
    LET visualization == prepare_visualization_data(req.df, req.reduced_vectors,
                                                    req.cluster_labels,
                                                    req.pmid_associations)
        labelled == label_datasets(heap, req.datasets, req.cluster_labels, 1)
    IN  /\ req.pc = "reduced"
        /\ IF visualization.exc # ""
           THEN /\ req' = [req EXCEPT !.pc = "responded", !.status = 500,
                                      !.exc = visualization.exc]
                /\ heap' = heap
           ELSE /\ req' = [req EXCEPT !.pc = "responded", !.status = 200,
                                      !.visualization = visualization,
                                      !.body = [i \in 1 .. Len(req.datasets) |->
                                                   labelled[req.datasets[i]]]]
                /\ heap' = labelled
        /\ UNCHANGED <<pmid_cache, geo_cache, mode, call, okreq>>
        /\ UNCHANGED <<commonVars, cacheVars, rateVars, clusVars, viz, deco>>

\* perform_clustering and reduce_dimensions are given a matrix of n rows.
ReqInit ==
    \E n \in 0 .. MaxN, n_components \in 1 .. MaxComponents :
        req = [ReqIdle EXCEPT !.pc = "cluster",
                              !.tfidf_matrix = [i \in 1 .. n |-> {<<"liver">>}],
                              !.n_components = n_components]


(***************************************************************************)
(* cache.py: cached_result                                                 *)
(***************************************************************************)
MaxSize == 2                    \* max_size is 0 .. MaxSize
MaxCalls == 4                   \* calls of the wrapper per behaviour

\* The keys made from the arguments at line 34, and what func returns for them.
DecoKeys == {"a", "b", "c"}
func(key) ==
    CASE key = "a" -> PyStr("v1")
      [] key = "b" -> PyStr("v2")
      [] OTHER -> PyNone

\* Line 47 with a plausible bug: max instead of min.
oldest_key_max(cache_dict, keys) ==
    LET i == CHOOSE i \in 1 .. Len(keys) :
                /\ \A j \in 1 .. Len(keys) : cache_dict[keys[j]].ts <= cache_dict[keys[i]].ts
                /\ \A j \in 1 .. (i - 1) : cache_dict[keys[j]].ts < cache_dict[keys[i]].ts
    IN  keys[i]

\* Line 47: min(cache.keys(), key=lambda k: cache[k][0]) -- the first key, in the
\* order of the dict, with the lowest timestamp
oldest_key(cache_dict, keys) ==
    LET i == CHOOSE i \in 1 .. Len(keys) :
                /\ \A j \in 1 .. Len(keys) : cache_dict[keys[j]].ts >= cache_dict[keys[i]].ts
                /\ \A j \in 1 .. (i - 1) : cache_dict[keys[j]].ts > cache_dict[keys[i]].ts
    IN  keys[i]

DecoIdle == [pc |-> "idle", max_size |-> 0, cache |-> EmptyDict, keys |-> <<>>,
             key |-> "", n |-> 0, returned |-> PyNone, held |-> EmptyDict]

\* Lines 34-39: the wrapper is called; a value in the cache that is not None is
\* returned.
WrapperCall ==
    /\ deco.pc = "idle"
    /\ deco.n < MaxCalls
    /\ \E key \in DecoKeys :
        LET cached == get_from_cache(deco.cache, key, now)
        IN  deco' = IF cached # PyNone
                    THEN [deco EXCEPT !.n = @ + 1, !.key = key, !.returned = cached,
                                      !.held = deco.cache]
                    ELSE [deco EXCEPT !.n = @ + 1, !.key = key, !.pc = "miss"]
    /\ UNCHANGED <<commonVars, cacheVars, rateVars, clusVars, retrVars, req, viz>>

\* Lines 42-50: func has returned; its result is stored, the oldest entry is
\* deleted if there are more than max_size, and the result is returned.
WrapperMiss ==
    LET result == func(deco.key)
        added == add_to_cache(deco.cache, deco.key, result, now)
        keys == KeysAdd(deco.keys, deco.key)
        evicts == Cardinality(DOMAIN added) > deco.max_size
        gone == oldest_key(added, keys)
    IN  /\ deco.pc = "miss"
        /\ deco' = [deco EXCEPT
                      !.pc = "idle", !.returned = result, !.held = added,
                      !.cache = IF evicts THEN DictDel(added, gone) ELSE added,
                      !.keys = IF evicts
                               THEN SelectSeq(keys, LAMBDA k : k # gone)
                               ELSE keys]
        /\ UNCHANGED <<commonVars, cacheVars, rateVars, clusVars, retrVars, req, viz>>

DecoSteps == {1, CACHE_EXPIRY}

TickDeco ==
    /\ \E d \in DecoSteps : Advance(d)
    /\ UNCHANGED <<cacheVars, rateVars, clusVars, retrVars, anaVars>>

\* Line 28-30: cached_result(max_size) has wrapped func; the cache is empty.
DecoInit == \E max_size \in 0 .. MaxSize : deco = [DecoIdle EXCEPT !.max_size = max_size]

\* The thread of call c runs on: every lookup is answered from the cache, and every
\* request returns or fails.
CallStep(c) ==
    \/ IdsLookup(c) \/ RespectRateLimit(c) \/ Wake(c) \/ Elink(c)
    \/ DetailsLookup(c) \/ Esummary(c) \/ Tag(c) \/ Return(c)

ClusInit == est = EstIdle
AnaInit == req = ReqIdle /\ viz = VizIdle /\ deco = DecoIdle

InitRate == CommonInit /\ CacheInit /\ RateInit({1}) /\ ClusInit /\ RetrInit("one") /\ AnaInit
InitRace == CommonInit /\ CacheInit /\ RateInit(Threads) /\ ClusInit /\ RetrInit("one") /\ AnaInit
InitCache == CommonInit /\ CacheInit /\ RateInit({}) /\ ClusInit /\ RetrInit("one") /\ AnaInit
Init == CommonInit /\ CacheInit /\ RateInit({}) /\ ClusInit /\ RetrInit("one") /\ AnaInit
InitSeq == CommonInit /\ CacheInit /\ RateInit({}) /\ ClusInit /\ RetrInit("seq") /\ AnaInit
InitConc == CommonInit /\ CacheInit /\ RateInit({}) /\ ClusInit /\ RetrInit("conc") /\ AnaInit
InitClus ==
    /\ CommonInit /\ CacheInit /\ RateInit({}) /\ RetrInit("one") /\ AnaInit
    /\ \E n \in 0 .. MaxN, m \in MaxClustersArgs :
           est = [EstIdle EXCEPT !.pc = "call", !.n = n, !.max_clusters = m]

NextRate ==
    \/ TickRate
    \/ \E t \in Threads : RlRead(t)
    \/ \E t \in Threads : RlWake(t)
    \/ \E t \in Threads : RlWrite(t)

NextCache == TickCache \/ AddToCache \/ GetFromCache

InitVis ==
    /\ CommonInit /\ CacheInit /\ RateInit({}) /\ ClusInit /\ RetrInit("one")
    /\ req = ReqIdle /\ deco = DecoIdle /\ VizInit

NextVis == PrepareVisualizationData

InitDeco ==
    /\ CommonInit /\ CacheInit /\ RateInit({}) /\ ClusInit /\ RetrInit("one")
    /\ req = ReqIdle /\ viz = VizIdle /\ DecoInit

NextDeco == TickDeco \/ WrapperCall \/ WrapperMiss

InitAna ==
    /\ CommonInit /\ CacheInit /\ RateInit({}) /\ ClusInit /\ RetrInit("one")
    /\ viz = VizIdle /\ deco = DecoIdle /\ ReqInit

NextAna ==
    \/ PerformClustering
    \/ EstEnter \/ EstCandidate \/ EstReturn
    \/ FitClustering
    \/ ReduceDimensions

\* fetch_geo_data, from empty caches: the call of get_geo_data_for_pmids, then the
\* analysis
NextPipe ==
    \/ Start(1)
    \/ IdsLookup(1)
    \/ RespectRateLimit(1)
    \/ Wake(1)
    \/ Elink(1)
    \/ DetailsLookup(1)
    \/ Esummary(1)
    \/ Tag(1)
    \/ Return(1)
    \/ Receive
    \/ Vectorize
    \/ PerformClustering
    \/ EstEnter \/ EstCandidate \/ EstReturn
    \/ FitClustering
    \/ ReduceDimensions
    \/ Respond

NextClus == EstEnter \/ EstCandidate \/ EstReturn

SpecCache == InitCache /\ [][NextCache]_vars
SpecRate == InitRate /\ [][NextRate]_vars
SpecRace == InitRace /\ [][NextRate]_vars
SpecClus == InitClus /\ [][NextClus]_vars
Spec == Init /\ [][NextRetr]_vars
SpecSeq == InitSeq /\ [][NextRetr]_vars
SpecConc == InitConc /\ [][NextConc]_vars
SpecFair == Init /\ [][NextRetr]_vars /\ WF_vars(CallStep(1))
SpecVis == InitVis /\ [][NextVis]_vars
SpecAna == InitAna /\ [][NextAna]_vars
SpecDeco == InitDeco /\ [][NextDeco]_vars
SpecPipe == Init /\ [][NextPipe]_vars

(***************************************************************************)
(* Claims                                                                  *)
(***************************************************************************)

\* C2: when _respect_rate_limit is called again and again by one thread on one
\* client, every call returns at least delay after the start of the call before it.
RateLimitGap ==
    \A t \in rl_threads :
        (rl[t].pc = "idle" /\ rl[t].n >= 2) => rl[t].ret - rl[t].prev_start >= delay

\* Three calls have returned, the last after a sleep.
RateLimitGapWitness ==
    /\ rl[1].pc = "idle" /\ rl[1].n = 3
    /\ rl[1].wake > rl[1].start
    /\ rl[1].ret - rl[1].prev_start >= delay

\* C3: get_from_cache returns the value of the last add_to_cache for the key while
\* the entry is younger than CACHE_EXPIRY, and None from age CACHE_EXPIRY on.
CacheTTLReturn ==
    [][ got' # got =>
        LET k == got'.key
            fresh == k \in DOMAIN stored /\ now - stored[k].ts < CACHE_EXPIRY
        IN  got'.value = IF fresh THEN stored[k].data ELSE PyNone ]_vars

\* A key is looked up exactly CACHE_EXPIRY after a value was stored for it, and the
\* lookup returns None.
CacheTTLWitness ==
    /\ got.op = "get"
    /\ got.key \in DOMAIN stored
    /\ stored[got.key].data # PyNone
    /\ got.at - stored[got.key].ts = CACHE_EXPIRY
    /\ got.value = PyNone

\* The latest completed calls of the two threads returned less than delay apart.
Burst ==
    /\ rl[1].ret # NoTime /\ rl[2].ret # NoTime
    /\ rl[1].ret - rl[2].ret < delay
    /\ rl[2].ret - rl[1].ret < delay

\* C4: two threads on one client can return from _respect_rate_limit less than
\* delay apart (RaceBurstWitness), and they do so only through the race: one of the
\* two calls wrote last_request_time over a value it had not read.
RaceBurstOnlyByStaleRead ==
    Burst => (rl[1].stale \/ rl[2].stale)

\* Both threads read the same last_request_time, both slept, both wrote, and both
\* are back from the call less than delay apart.
RaceBurstWitness ==
    /\ rl_threads = Threads
    /\ rl[1].pc = "idle" /\ rl[2].pc = "idle"
    /\ rl[1].read = rl[2].read
    /\ rl[1].wake > rl[1].start /\ rl[2].wake > rl[2].start
    /\ Burst

\* C10 as stated: for n >= 1 the result k of estimate_optimal_clusters satisfies
\* k >= 1 and k <= min(max_clusters, n - 1).
ClusterCountWithinBound ==
    (est.pc = "done" /\ est.n >= 1) =>
        /\ est.result >= 1
        /\ est.result <= Min2(est.max_clusters, est.n - 1)

\* The one case in which the fallback of lines 58-59 exceeds max_clusters.
FallbackAboveMax ==
    est.max_clusters = 2 /\ est.n >= 4 /\ est.silhouette_scores = <<>>

\* C10 amended (max_clusters >= 1): k >= 1 always; k = 1 when n <= 1; for n >= 2,
\* k <= min(max_clusters, n - 1), except that with max_clusters = 2, n >= 4 and no
\* candidate scored the fallback min(3, n - 1) = 3 is returned.
ClusterCountAmended ==
    est.pc = "done" =>
        /\ est.result >= 1
        /\ est.n <= 1 => est.result = 1
        /\ (est.n >= 2 /\ ~FallbackAboveMax) =>
               est.result <= Min2(est.max_clusters, est.n - 1)
        /\ FallbackAboveMax => est.result = 3

\* The fallback was taken after every candidate collapsed or failed to score, with
\* the default max_clusters.
ClusterCountWitness ==
    /\ est.pc = "done"
    /\ est.n = MaxN /\ est.max_clusters = DEFAULT_MAX_CLUSTERS
    /\ est.n_clusters = est.n
    /\ est.silhouette_scores = <<>>
    /\ est.result = 3

\* C15: when at least one candidate got a silhouette score, the result of
\* estimate_optimal_clusters is a candidate with the highest score, and the lowest
\* of the candidates with that score.
HighestScoreLowestK ==
    (est.pc = "done" /\ est.silhouette_scores # <<>>) =>
        \E i \in 1 .. Len(est.silhouette_scores) :
            /\ est.result = est.silhouette_scores[i][1]
            /\ \A j \in 1 .. Len(est.silhouette_scores) :
                   /\ est.silhouette_scores[j][2] <= est.silhouette_scores[i][2]
                   /\ est.silhouette_scores[j][2] = est.silhouette_scores[i][2]
                          => est.result <= est.silhouette_scores[j][1]

\* Candidates 3 and 4 tie on the highest score, above that of candidate 2.
HighestScoreLowestKWitness ==
    /\ est.pc = "done"
    /\ est.silhouette_scores = <<<<2, 0>>, <<3, 1>>, <<4, 1>>>>
    /\ est.result = 3

(***************************************************************************)
(* Claims about get_geo_data_for_pmids                                     *)
(***************************************************************************)
Done(c) == call[c].pc = "done"

\* The lookups of a call, by method.
IdsEvents(c) == SelectSeq(call[c].events, LAMBDA e : e.op = "ids")
DetailsEvents(c) == SelectSeq(call[c].events, LAMBDA e : e.op = "details")
Fetched(c) == SelectSeq(call[c].events, LAMBDA e : e.op = "details" /\ e.value # PyNone)

\* The PMIDs of a call for which some link resolution returned GEO ids.
Resolved(c) ==
    {call[c].pmids[i] : i \in {i \in 1 .. Len(IdsEvents(c)) :
                                 /\ IdsEvents(c)[i].value # PyNone
                                 /\ IdsEvents(c)[i].value.v # <<>>}}

\* C1: when two different PMIDs of one call both brought in a record of the same
\* GEO id, the returned list holds a record of that GEO id tagged with the one PMID
\* and a record tagged with the other.
DistinctPmidTags ==
    \A c \in Calls : Done(c) =>
        \A k1, k2 \in 1 .. Len(call[c].result) :
            (/\ call[c].result[k1].geo_id = call[c].result[k2].geo_id
             /\ call[c].tags[k1] # call[c].tags[k2]) =>
                \E m \in 1 .. Len(call[c].result) :
                    /\ call[c].result[m].geo_id = call[c].result[k1].geo_id
                    /\ call[c].result[m].pmid = call[c].tags[k1]

\* What a call over at most one PMID returns when it runs alone, given the lookups
\* that succeeded: one record for each fetched GEO id, tagged with the PMID.
AloneRecords(c) ==
    [k \in 1 .. Len(Fetched(c)) |->
        [new_dataset(Fetched(c)[k].key) EXCEPT !.pmid = call[c].pmids[1]]]

\* C5: a call that ran concurrently with another over the shared caches returns the
\* records (pmid tags included) and the map it returns when it runs alone.
ConcurrentSameAsAlone ==
    \A c \in Calls : Done(c) =>
        /\ call[c].result = AloneRecords(c)
        /\ DOMAIN call[c].pmid_to_geo_ids = Resolved(c)

\* C6: the returned map holds, for each PMID whose link resolution returned GEO ids,
\* exactly that list, and no other key, whatever became of the detail fetches; the
\* returned list holds one record for each detail fetch that returned a record.
MapFromLinkResolution ==
    \A c \in Calls : Done(c) =>
        /\ DOMAIN call[c].pmid_to_geo_ids = Resolved(c)
        /\ \A i \in 1 .. Len(IdsEvents(c)) :
               LET e == IdsEvents(c)[i]
               IN  (e.value # PyNone /\ e.value.v # <<>>) =>
                       call[c].pmid_to_geo_ids[e.key] = e.value.v
        /\ Len(call[c].result) = Len(Fetched(c))
        /\ \A k \in 1 .. Len(call[c].result) :
               call[c].result[k].geo_id = Fetched(c)[k].key

\* P1 resolved to G1 and G2, only one of the two detail fetches returned a record,
\* and the map lists both.
MapFromLinkResolutionWitness ==
    /\ Done(1)
    /\ call[1].pmids = <<"P1">>
    /\ call[1].pmid_to_geo_ids = [p \in {"P1"} |-> <<"G1", "G2">>]
    /\ Len(call[1].result) = 1
    /\ \E k \in 1 .. Len(call[1].events) :
           call[1].events[k].op = "details" /\ call[1].events[k].value = PyNone

\* The entries a cache should hold: those of the requests that succeeded.
SucceededEntries(kind) ==
    [k \in {x[2] : x \in {y \in DOMAIN okreq : y[1] = kind}} |-> okreq[<<kind, k>>]]

LastEvent(cr) == cr.events[Len(cr.events)]

\* A lookup for key in the cache of kind, by call c, from position pc: served from
\* the cache without a request when a request for the key succeeded less than
\* CACHE_EXPIRY ago, and followed by a request otherwise.
LookupServed(c, kind, key, request_pc) ==
    LET fresh == /\ <<kind, key>> \in DOMAIN okreq
                 /\ now - okreq[<<kind, key>>].ts < CACHE_EXPIRY
    IN  IF fresh
        THEN /\ call'[c].pc # request_pc
             /\ Len(call'[c].events) = Len(call[c].events) + 1
             /\ LastEvent(call'[c]).src = "cache"
             /\ LastEvent(call'[c]).value = okreq[<<kind, key>>].data
             /\ call'[c].last_request_time = call[c].last_request_time
             /\ now' = now
        ELSE /\ call'[c].pc = request_pc
             /\ call'[c].events = call[c].events

\* C7: the caches hold exactly the results of the requests that succeeded (an empty
\* ID list among them), stamped with the clock at the time they were stored; a
\* lookup within CACHE_EXPIRY of that time is served from the cache and returns the same
\* result, and every other lookup issues a request.
CachedExactlyOnSuccess ==
    /\ [](pmid_cache = SucceededEntries("ids") /\ geo_cache = SucceededEntries("details"))
    /\ [][\A c \in Calls :
            /\ (call[c].pc = "ids" /\ call[c].i <= Len(call[c].pmids) /\ call'[c] # call[c])
                   => LookupServed(c, "ids", call[c].pmids[call[c].i], "elink")
            /\ (call[c].pc = "details" /\ call'[c] # call[c])
                   => LookupServed(c, "details", call[c].geo_ids[call[c].j], "esummary")
            /\ (call[c].pc \in {"elink_get", "esummary_get"} /\ call'[c] # call[c])
                   => LastEvent(call'[c]).src = "request" ]_vars

\* A lookup of P3 was served from the cache, which holds the empty ID list that an
\* earlier request for P3 returned.
CachedExactlyOnSuccessWitness ==
    /\ \E c \in Calls : \E k \in 1 .. Len(call[c].events) :
           call[c].events[k] = [op |-> "ids", key |-> "P3", src |-> "cache",
                                out |-> "ok", value |-> PyList(<<>>)]
    /\ pmid_cache["P3"].data = PyList(<<>>)

\* C8: a transport failure costs only its own unit.  Every PMID of the list is
\* looked up, in order; after each lookup the GEO ids it returned are looked up, in
\* order, before the next PMID; a PMID whose lookups all failed or came back empty
\* is no key of the map; a failed detail fetch adds no record.
FailureSkipsOneUnit ==
    \A c \in Calls : Done(c) =>
        LET ev == call[c].events
        IN  /\ Len(IdsEvents(c)) = Len(call[c].pmids)
            /\ \A i \in 1 .. Len(IdsEvents(c)) : IdsEvents(c)[i].key = call[c].pmids[i]
            /\ \A a \in 1 .. Len(ev) : ev[a].op = "ids" =>
                   LET ids == ev[a].value.v
                   IN  /\ a + Len(ids) <= Len(ev)
                       /\ \A m \in 1 .. Len(ids) :
                              ev[a + m].op = "details" /\ ev[a + m].key = ids[m]
                       /\ a + Len(ids) < Len(ev) => ev[a + Len(ids) + 1].op = "ids"
            /\ \A a \in 1 .. Len(ev) : ev[a].out = "RequestException" =>
                   /\ ev[a].value \in {PyNone, PyList(<<>>)}
                   /\ ev[a].op = "ids" =>
                          (ev[a].key \in DOMAIN call[c].pmid_to_geo_ids
                              => ev[a].key \in Resolved(c))
            /\ Len(call[c].result) = Len(Fetched(c))
            /\ \A k \in 1 .. Len(call[c].result) :
                   call[c].result[k].geo_id = Fetched(c)[k].key

\* The lookup of P1 failed in transport; P2, after it in the list, was resolved and
\* its dataset fetched.
FailureSkipsOneUnitWitness ==
    /\ Done(1)
    /\ call[1].pmids = <<"P1", "P2">>
    /\ call[1].events[1].out = "RequestException"
    /\ DOMAIN call[1].pmid_to_geo_ids = {"P2"}
    /\ Len(call[1].result) = 1
    /\ call[1].result[1].geo_id = "G1"

\* C9: no exception escapes get_geo_ids_for_pmid or get_geo_dataset_details into
\* get_geo_data_for_pmids, whatever the answer to the request.
NoExceptionEscapes ==
    \A c \in Calls : call[c].pc # "raised"

(***************************************************************************)
(* Claims about prepare_visualization_data                                 *)
(***************************************************************************)
VizDone == viz.pc = "done"

\* The input has at least one row, one coordinate and one label.
NonEmptyInput ==
    viz.df # <<>> /\ viz.reduced_vectors # <<>> /\ viz.cluster_labels # <<>>

NodesOfType(t) == SelectSeq(viz.result.nodes, LAMBDA node : node.type = t)
LinksOfType(t) == SelectSeq(viz.result.links, LAMBDA link : link.type = t)

\* The unordered pairs of dataset nodes of the result with the same cluster.
SameLabelPairs ==
    LET nodes == NodesOfType("dataset")
    IN  {p \in (1 .. Len(nodes)) \X (1 .. Len(nodes)) :
            p[1] < p[2] /\ nodes[p[1]].cluster = nodes[p[2]].cluster}

\* The (pmid, geo id) pairs of the input map.
MapPairs ==
    UNION {{<<k, m>> : m \in 1 .. Len(viz.items[k].geo_ids)} : k \in 1 .. Len(viz.items)}

LinkCountsAgree ==
    /\ Len(LinksOfType("same_cluster")) = Cardinality(SameLabelPairs)
    /\ Len(LinksOfType("pmid_to_dataset")) = Cardinality(MapPairs)

\* C12 as stated: for every input of prepare_visualization_data the number of
\* same_cluster links equals the number of unordered pairs of dataset nodes with the
\* same label, and the number of pmid_to_dataset links equals the number of
\* (pmid, geo id) pairs of the map.
LinkCounts == VizDone => LinkCountsAgree

\* C12 amended: the two counts agree for every input with at least one row, one
\* coordinate and one label; with no row or no coordinate the result has no link,
\* whatever the map holds; with rows and coordinates but no label no graph is
\* returned (ValueError).
LinkCountsNonEmpty ==
    VizDone =>
        /\ NonEmptyInput => (viz.result.exc = "" /\ LinkCountsAgree)
        /\ (viz.df = <<>> \/ viz.reduced_vectors = <<>>) => viz.result = EmptyGraph
        /\ (viz.df # <<>> /\ viz.reduced_vectors # <<>> /\ viz.cluster_labels = <<>>)
               => viz.result.exc = "ValueError"

\* Three dataset nodes of which two share a label, under a map of three pairs.
LinkCountsWitness ==
    /\ VizDone /\ NonEmptyInput
    /\ Len(NodesOfType("dataset")) = 3
    /\ Cardinality(SameLabelPairs) = 1
    /\ Len(LinksOfType("same_cluster")) = 1
    /\ Len(LinksOfType("pmid_to_dataset")) = 3

\* The dataset nodes of the result tagged with pmid.
TaggedNodes(pmid) == SelectSeq(NodesOfType("dataset"), LAMBDA node : node.pmid = pmid)

MapKeys == {viz.items[k].pmid : k \in 1 .. Len(viz.items)}

\* q is the arithmetic mean of the whole numbers of values.
IsMeanOf(q, values) == q[2] > 0 /\ q[1] * Len(values) = SumSeq(values) * q[2]

\* C16: for an input with rows, coordinates and labels, the result has exactly one
\* PMID node for each key of the map with a dataset node tagged with it and none for
\* the other keys; a PMID node has cluster -1 and lies at the arithmetic mean of the
\* dataset nodes tagged with its PMID; the dataset nodes are the nodes made from the
\* rows, none of them of type pmid.
PmidNodesAtMeans ==
    (VizDone /\ NonEmptyInput) =>
        LET pnodes == NodesOfType("pmid")
        IN  /\ \A pmid \in MapKeys :
                   Len(SelectSeq(pnodes, LAMBDA node : node.id = pmid))
                       = IF TaggedNodes(pmid) # <<>> THEN 1 ELSE 0
            /\ \A k \in 1 .. Len(pnodes) :
                   LET tagged == TaggedNodes(pnodes[k].id)
                   IN  /\ pnodes[k].id \in MapKeys
                       /\ pnodes[k].cluster = -1
                       /\ IsMeanOf(pnodes[k].x, [m \in 1 .. Len(tagged) |-> tagged[m].x[1]])
                       /\ IsMeanOf(pnodes[k].y, [m \in 1 .. Len(tagged) |-> tagged[m].y[1]])
            /\ Len(NodesOfType("dataset")) + Len(pnodes) = Len(viz.result.nodes)
            /\ Len(NodesOfType("dataset"))
                   = Min2(Len(viz.df), Min2(Len(viz.reduced_vectors), Len(viz.cluster_labels)))
            /\ \A k \in 1 .. Len(NodesOfType("dataset")) :
                   /\ viz.result.nodes[k].type = "dataset"
                   /\ viz.result.nodes[k].id = viz.df[k].geo_id

\* A map of two keys of which one has two dataset nodes, at different places, and
\* the other has none; a third row has no node for want of a coordinate.
PmidNodesAtMeansWitness ==
    /\ VizDone /\ NonEmptyInput
    /\ Len(viz.items) = 2
    /\ Len(NodesOfType("pmid")) = 1
    /\ Len(NodesOfType("dataset")) = 2 /\ Len(viz.df) = 3
    /\ NodesOfType("pmid")[1].x[2] = 2
    /\ Len(TaggedNodes(NodesOfType("pmid")[1].id)) = 2

NonNegativeLabels == \A i \in 1 .. Len(viz.cluster_labels) : viz.cluster_labels[i] >= 0

\* The dataset nodes of the result with the given cluster.
ClusterMembers(c) == SelectSeq(NodesOfType("dataset"), LAMBDA node : node.cluster = c)

\* C17: for an input with rows, coordinates and labels, the labels non-negative, the
\* clusters list has exactly one entry for each label of 0 .. max(labels) with a
\* dataset node and none for a label without; the size of an entry is the length of
\* its member list, an entry lists exactly the dataset nodes of its label, so that
\* every dataset node is in exactly one entry, and the sizes sum to the number of
\* dataset nodes.
ClusterEntriesPartition ==
    (VizDone /\ NonEmptyInput /\ NonNegativeLabels) =>
        LET clusters == viz.result.clusters
            top == SeqMax(viz.cluster_labels)
        IN  /\ \A c \in 0 .. top :
                   Len(SelectSeq(clusters, LAMBDA e : e.id = c))
                       = IF ClusterMembers(c) # <<>> THEN 1 ELSE 0
            /\ \A k \in 1 .. Len(clusters) :
                   /\ clusters[k].id \in 0 .. top
                   /\ clusters[k].size = Len(clusters[k].datasets)
                   /\ clusters[k].datasets =
                          [m \in 1 .. Len(ClusterMembers(clusters[k].id)) |->
                              ClusterMembers(clusters[k].id)[m].id]
            /\ \A n \in 1 .. Len(NodesOfType("dataset")) :
                   Cardinality({k \in 1 .. Len(clusters) :
                                   clusters[k].id = NodesOfType("dataset")[n].cluster}) = 1
            /\ SumSeq([k \in 1 .. Len(clusters) |-> clusters[k].size])
                   = Len(NodesOfType("dataset"))

\* Three dataset nodes with the labels 0 and 2: two entries, none for label 1.
ClusterEntriesWitness ==
    /\ VizDone /\ NonEmptyInput /\ NonNegativeLabels
    /\ Len(NodesOfType("dataset")) = 3
    /\ Len(viz.result.clusters) = 2
    /\ viz.result.clusters[1].size = 2
    /\ viz.result.clusters[2].id = 2

(***************************************************************************)
(* Claims about perform_clustering, reduce_dimensions and fetch_geo_data   *)
(***************************************************************************)
\* C11: when fetch_geo_data has clustered the datasets and answers with them, every
\* record of the returned list carries a cluster label c with 0 <= c < k, k the
\* n_clusters that perform_clustering returned for the request.
LabelsBelowClusterCount ==
    req.status = 200 =>
        /\ req.body # <<>>
        /\ Len(req.cluster_labels) = Len(req.body)
        /\ \A i \in 1 .. Len(req.body) :
               0 <= req.body[i].cluster /\ req.body[i].cluster < req.n_clusters

\* Four records in three clusters were returned, one dict twice in the list with
\* the label of its later position.
LabelsBelowClusterCountWitness ==
    /\ req.status = 200
    /\ Len(req.body) = 4 /\ req.n_clusters = 3
    /\ req.datasets[1] = req.datasets[3]
    /\ req.cluster_labels[1] # req.cluster_labels[3]
    /\ req.body[1].cluster = req.cluster_labels[3]

ScenarioP1 ==
    /\ req.pc = "responded"
    /\ call[1].pc = "done"
    /\ call[1].pmids = <<"P1">>
    /\ call[1].pmid_to_geo_ids = [p \in {"P1"} |-> <<"G1", "G2">>]
    /\ Len(call[1].datasets) = 2

\* C13: for the PMID list [P1], P1 linked to [G1, G2] and both details fetched,
\* fetch_geo_data completes without error and answers with 2 records tagged P1, the
\* map {P1: [G1, G2]}, k = 1, the pmid_to_dataset links P1-G1 and P1-G2 and exactly
\* one same_cluster link, G1-G2.
EndToEndP1 ==
    ScenarioP1 =>
        /\ req.status = 200
        /\ Len(req.body) = 2
        /\ \A i \in 1 .. Len(req.body) : req.body[i].pmid = "P1"
        /\ req.pmid_associations = <<[pmid |-> "P1", geo_ids |-> <<"G1", "G2">>]>>
        /\ req.n_clusters = 1
        /\ req.visualization.links =
               <<[source |-> "P1", target |-> "G1", type |-> "pmid_to_dataset"],
                 [source |-> "P1", target |-> "G2", type |-> "pmid_to_dataset"],
                 [source |-> "G1", target |-> "G2", type |-> "same_cluster"]>>

\* C14: for a matrix of exactly one row perform_clustering returns the single label
\* 0 and k = 1 and never calls estimate_optimal_clusters, so that no candidate
\* cluster count is tried, and reduce_dimensions returns one coordinate of
\* n_components entries, all of them 0.
SingleRecord ==
    Len(req.tfidf_matrix) = 1 =>
        /\ req.pc # "estimate" /\ ~req.estimated /\ est = EstIdle
        /\ req.pc \in {"reduce", "reduced"} =>
               req.cluster_labels = <<0>> /\ req.n_clusters = 1
        /\ req.pc = "reduced" =>
               /\ Len(req.reduced_vectors) = 1
               /\ DOMAIN req.reduced_vectors[1] = 1 .. req.n_components
               /\ \A d \in 1 .. req.n_components : req.reduced_vectors[1][d] = 0

\* Both functions have returned for one row, with n_components = 3.
SingleRecordWitness ==
    /\ Len(req.tfidf_matrix) = 1
    /\ req.pc = "reduced"
    /\ req.n_components = 3
    /\ Len(req.cluster_labels) = 1

(***************************************************************************)
(* Claims about cache.py                                                   *)
(***************************************************************************)
\* The keys deleted by the last call of the wrapper: held is the private cache as
\* it was when the call had stored its result, or had found one.
Evicted == (DOMAIN deco.held) \ (DOMAIN deco.cache)

\* C18: whenever the wrapper of cached_result(max_size) has returned, the private
\* cache holds at most max_size entries; a call evicts at most one entry, one whose
\* timestamp is the lowest of the entries held when it is evicted, and leaves the
\* other entries as they are.
BoundedOldestEvicted ==
    /\ deco.pc = "idle" => Cardinality(DOMAIN deco.cache) <= deco.max_size
    /\ Cardinality(Evicted) <= 1
    /\ \A k \in Evicted : \A j \in DOMAIN deco.held : deco.held[k].ts <= deco.held[j].ts
    /\ \A k \in DOMAIN deco.cache : k \in DOMAIN deco.held /\ deco.cache[k] = deco.held[k]

\* With max_size = 2 a third entry was stored and an older one evicted; the
\* evicted key was not the first to enter the dict.
BoundedOldestEvictedWitness ==
    /\ deco.pc = "idle" /\ deco.max_size = 2
    /\ Cardinality(DOMAIN deco.cache) = 2
    /\ \E k \in Evicted :
        /\ \E j \in DOMAIN deco.held : deco.held[k].ts < deco.held[j].ts
        /\ deco.keys[1] # deco.key
        /\ deco.held[deco.keys[1]].ts > deco.held[k].ts

\* C19: get_from_cache never changes the cache: whatever the key, present and
\* fresh, expired or never stored, the cache after the call is the cache before it.
GetLeavesCache == [][got' # got => cache' = cache]_vars

\* An expired entry was looked up, came back as None, and is still in the cache.
GetLeavesCacheWitness ==
    /\ got.op = "get"
    /\ got.value = PyNone
    /\ got.key \in DOMAIN cache
    /\ cache[got.key].data # PyNone
    /\ got.at = now
    /\ now - cache[got.key].ts >= CACHE_EXPIRY

(***************************************************************************)
(* Termination of get_geo_data_for_pmids                                   *)
(***************************************************************************)
Finished(c) == call[c].pc \in {"done", "raised"}

\* No two requests of the call are for the same endpoint and position, and every
\* request is for a position of the PMID list and of the list of linked GEO ids.
NoRetry ==
    \A c \in Calls :
        LET requests == call[c].requests
        IN  /\ \A a, b \in 1 .. Len(requests) : requests[a] = requests[b] => a = b
            /\ \A a \in 1 .. Len(requests) :
                   /\ requests[a][2] \in 1 .. Len(call[c].pmids)
                   /\ requests[a][1] = "esummary" =>
                          requests[a][3] \in 1 .. Len(LinksOf(call[c].pmids[requests[a][2]]))

\* C20: a get_geo_data_for_pmids call, every request of which returns or fails,
\* comes to its end (it returns, or an exception leaves it), and it makes at most one
\* link request for each position of the PMID list and at most one summary request
\* for each position of a PMID and of a GEO id linked to it, whatever fails.
TerminatesWithoutRetry == []NoRetry /\ (Running(1) ~> Finished(1))

\* The call returned after five requests, one of which failed; G1 was requested
\* twice, once for each PMID that links it.
TerminatesWithoutRetryWitness ==
    /\ call[1].pc = "done"
    /\ Len(call[1].requests) = 5
    /\ \E k \in 1 .. Len(call[1].events) : call[1].events[k].out = "RequestException"
    /\ \E a, b \in 1 .. Len(call[1].requests) :
           /\ call[1].requests[a] = <<"esummary", 1, 1>>
           /\ call[1].requests[b] = <<"esummary", 2, 1>>

(***************************************************************************)
(* Cache hits, and requests across calls                                   *)
(***************************************************************************)
\* Call c takes a step of a lookup whose key has a value in the cache that has not
\* expired.
HitStep(c) ==
    /\ call'[c] # call[c]
    /\ \/ /\ call[c].pc = "ids" /\ call[c].i <= Len(call[c].pmids)
          /\ get_from_cache(pmid_cache, call[c].pmids[call[c].i], now) # PyNone
       \/ /\ call[c].pc = "details"
          /\ get_from_cache(geo_cache, call[c].geo_ids[call[c].j], now) # PyNone

\* C21: a lookup of get_geo_ids_for_pmid or get_geo_dataset_details that finds a
\* valid entry in the cache makes no request, does not wait for the rate limit, and
\* leaves last_request_time of the client and both caches as they were.
HitLeavesClientAndCaches ==
    [][\A c \in Calls :
          HitStep(c) =>
              /\ call'[c].pc \notin {"elink", "esummary"}
              /\ call'[c].requests = call[c].requests
              /\ now' = now
              /\ call'[c].last_request_time = call[c].last_request_time
              /\ pmid_cache' = pmid_cache /\ geo_cache' = geo_cache]_vars

\* A call has had the GEO ids of P1 and the record of G1 from the cache, which an
\* earlier call filled, and has made no request and has not waited.
HitLeavesClientAndCachesWitness ==
    \E c \in Calls :
        /\ Len(call[c].events) = 2
        /\ call[c].events[1].src = "cache" /\ call[c].events[1].op = "ids"
        /\ call[c].events[2].src = "cache" /\ call[c].events[2].op = "details"
        /\ call[c].requests = <<>>
        /\ call[c].last_request_time = 0
        /\ DOMAIN pmid_cache # {} /\ DOMAIN geo_cache # {}

\* Call c issues a request in this step.
RequestStep(c) == Len(call'[c].requests) = Len(call[c].requests) + 1

\* C22: over calls of get_geo_data_for_pmids run one after the other, every request
\* is issued at least delay after the request before it, the last request of an
\* earlier call included.
RequestsApartAcrossCalls ==
    [][\A c \in Calls :
          RequestStep(c) =>
              \A d \in Calls :
                  call[d].requests # <<>> =>
                      now' - call[d].last_request_time >= delay]_vars

(***************************************************************************)
(* Sources of the pmid_to_dataset links                                    *)
(***************************************************************************)
\* The ids of the PMID nodes of the result.
PmidNodeIds == {NodesOfType("pmid")[k].id : k \in 1 .. Len(NodesOfType("pmid"))}

\* The pmid_to_dataset links of the result.
PmidLinks ==
    {LinksOfType("pmid_to_dataset")[k] : k \in 1 .. Len(LinksOfType("pmid_to_dataset"))}

\* C23 as stated: in every graph prepare_visualization_data returns, the source of
\* every pmid_to_dataset link is the id of a PMID node of that graph.
LinkSourcesArePmidNodes ==
    (VizDone /\ viz.result.exc = "") =>
        \A link \in PmidLinks : link.source \in PmidNodeIds

\* C23 amended: the source of every pmid_to_dataset link is a key of the map and its
\* target one of that key's GEO ids; the source is the id of a PMID node of the graph
\* exactly when a dataset node of the graph is tagged with it.
LinkSourcesAreKeys ==
    (VizDone /\ viz.result.exc = "") =>
        \A link \in PmidLinks :
            /\ \E k \in 1 .. Len(viz.items) :
                   /\ viz.items[k].pmid = link.source
                   /\ \E m \in 1 .. Len(viz.items[k].geo_ids) :
                          viz.items[k].geo_ids[m] = link.target
            /\ link.source \in PmidNodeIds <=> TaggedNodes(link.source) # <<>>

\* A graph with a link whose source is a PMID node and a link whose source is a key
\* of the map with no dataset node tagged with it, hence with no PMID node.
LinkSourcesAreKeysWitness ==
    /\ VizDone /\ NonEmptyInput /\ viz.result.exc = ""
    /\ \E link \in PmidLinks : link.source \in PmidNodeIds
    /\ \E link \in PmidLinks :
           link.source \notin PmidNodeIds /\ TaggedNodes(link.source) = <<>>

(***************************************************************************)
(* The records held by geo_cache                                           *)
(***************************************************************************)
\* The dict that geo_cache holds for geo_id.
CachedRecord(geo_id) == heap[geo_cache[geo_id].data.ref]

\* C24: a record stored in geo_cache is never modified after it is stored: it keeps
\* the fields get_geo_dataset_details extracted and gets no pmid and no cluster key,
\* neither from get_geo_data_for_pmids nor from fetch_geo_data.
CachedRecordsUntouched ==
    \A geo_id \in DOMAIN geo_cache :
        geo_cache[geo_id].data.t = "dict" => CachedRecord(geo_id) = new_dataset(geo_id)

====
